---- MODULE Spec2Model ----
(***************************************************************************)
(* Merkle consistency proofs of ct-merkle (src/src/consistency_proof.rs):  *)
(* CtMerkleTree::consistency_proof, RootHash::verify_consistency and the   *)
(* ConsistencyProof byte codec, over the array-indexed tree of tree_math   *)
(* and the node store of merkle_tree.                                      *)
(*                                                                         *)
(* Digests are terms of a free algebra: a leaf hash is <<v>>, a parent     *)
(* hash is <<left, right>>.  Two digests are equal iff they were computed  *)
(* the same way, which is the collision-free reading of the hash.          *)
(***************************************************************************)
EXTENDS Integers, Sequences, FiniteSets, TLC

VARIABLES
    leaves,     \* the tree: the leaf hashes, in append order
    roots,      \* roots[k]: the RootHash snapshot taken when the tree had k leaves
    op,         \* the last call made
    arg_size,   \* consistency_proof: subslice_size
    arg_self,   \* verify_consistency: self, the new root
    arg_old,    \* verify_consistency: old_root
    arg_bytes,  \* verify_consistency: the proof bytes received
    outcome,    \* how the last call ended
    ret_proof,  \* consistency_proof: the digests of the returned proof
    walk        \* the result of the divergence walk of the last call

vars == <<leaves, roots, op, arg_size, arg_self, arg_old, arg_bytes, outcome, ret_proof, walk>>

(***************************************************************************)
(* Bounds of the model.                                                    *)
(***************************************************************************)
\* Largest number of leaves a tree is grown to.
MaxLeaves == 12
\* Largest tree against which arbitrary (adversarial) roots and proofs are verified.
MaxAdvLeaves == 3
\* Longest arbitrary proof, in digests.
MaxAdvProofLen == 2

\* H::OutputSize::USIZE, the digest size in bytes (SHA-256 in the crate's test).
DigestSize == 32

\* The items that can be pushed on a tree of n leaves: a fresh item, or, as the second
\* item, a repeat of the first (equal items have equal leaf hashes).
Items(n) == IF n = 1 THEN {1, 2} ELSE {n + 1}

(***************************************************************************)
(* tree_math: node indices of the array layout (leaves at even indices,    *)
(* a parent between its children), relative to the current leaf count.     *)
(***************************************************************************)
\* parent() of the root panics ("root has no parent"); left()/right() of a leaf panic.
NoNode == -1
\* The climb left the u64 index range: it overflows (a panic or a wrapped, endless walk).
IdxOverflow == -2
\* Marks that a call never entered the divergence walk.
NoWalk == IdxOverflow - 1

RECURSIVE Pow2(_)
Pow2(k) == IF k = 0 THEN 1 ELSE 2 * Pow2(k - 1)

RECURSIVE IsPowerOfTwo(_)
IsPowerOfTwo(x) ==
    IF x <= 0 THEN FALSE
    ELSE IF x = 1 THEN TRUE
    ELSE x % 2 = 0 /\ IsPowerOfTwo(x \div 2)

RECURSIVE Log2(_)
Log2(x) == IF x <= 1 THEN 0 ELSE 1 + Log2(x \div 2)

\* The level of a node is the number of trailing one bits of its index.
RECURSIVE Level(_)
Level(x) == IF x % 2 = 1 THEN 1 + Level(x \div 2) ELSE 0

NumInternalNodes(n) == IF n < 2 THEN n ELSE 2 * (n - 1) + 1

RootIdx(n) == Pow2(Log2(NumInternalNodes(n))) - 1

\* (x | (1 << k)) ^ (b << (k + 1)), with k = level(x) and b = bit k+1 of x.
ParentStep(x) ==
    LET k == Level(x)
        b == (x \div Pow2(k + 1)) % 2
    IN  x + Pow2(k) - b * Pow2(k + 1)

\* The loop of parent(): step up until the node exists in a tree of width w.  On the
\* left spine (index 2^k - 1) every further step stays on the spine and grows, so the
\* loop only ends when the index arithmetic overflows.
RECURSIVE ParentLoop(_, _)
ParentLoop(p, w) ==
    IF p < w THEN p
    ELSE IF IsPowerOfTwo(p + 1) THEN IdxOverflow
    ELSE ParentLoop(ParentStep(p), w)

Parent(x, n) ==
    IF x = RootIdx(n) THEN NoNode
    ELSE ParentLoop(ParentStep(x), NumInternalNodes(n))

Left(x) ==
    LET k == Level(x)
    IN  IF k = 0 THEN NoNode ELSE x - Pow2(k - 1)

RECURSIVE RightLoop(_, _)
RightLoop(r, w) ==
    IF r < 0 \/ r < w THEN r ELSE RightLoop(Left(r), w)

Right(x, n) ==
    LET k == Level(x)
    IN  IF k = 0 THEN NoNode ELSE RightLoop(x + Pow2(k - 1), NumInternalNodes(n))

Sibling(x, n) ==
    LET p == Parent(x, n)
    IN  IF p < 0 THEN p
        ELSE IF x < p THEN Right(p, n) ELSE Left(p)

IsLeft(x, n) == x < Parent(x, n)

\* LeafIdx -> InternalIdx
LeafToInternal(l) == 2 * l

(***************************************************************************)
(* merkle_tree: hashing and the node store.                                *)
(***************************************************************************)
LeafHash(v) == <<v>>

ParentHash(l, r) == <<l, r>>

\* self.internal_nodes[x] of the tree whose leaf hashes are lv.
RECURSIVE NodeDigest(_, _)
NodeDigest(x, lv) ==
    IF Level(x) = 0 THEN lv[(x \div 2) + 1]
    ELSE ParentHash(NodeDigest(Left(x), lv), NodeDigest(Right(x, Len(lv)), lv))

\* The digest root() reports for the empty tree (the hash of no input).
EmptyDigest == <<-1>>

\* CtMerkleTree::root(): the RootHash snapshot (digest, leaf count).
Root(lv) ==
    [root_hash  |-> IF Len(lv) = 0 THEN EmptyDigest ELSE NodeDigest(RootIdx(Len(lv)), lv),
     num_leaves |-> Len(lv)]

(***************************************************************************)
(* The proof codec.  Proof bytes are kept as the digests of the full       *)
(* DigestSize-byte chunks plus the number of bytes left over after them.   *)
(***************************************************************************)
Bytes(ds, k) == [digests |-> ds, extra |-> k]

BytesLen(b) == Len(b.digests) * DigestSize + b.extra

\* ConsistencyProof::as_bytes
AsBytes(proof) == Bytes(proof, 0)

\* ConsistencyProof::from_bytes: panics unless the length is a multiple of the digest size.
FromBytes(b) ==
    IF BytesLen(b) % DigestSize # 0
    THEN [status |-> "Panic", proof |-> b]
    ELSE [status |-> "Ok", proof |-> b]

(***************************************************************************)
(* CtMerkleTree::consistency_proof                                         *)
(***************************************************************************)
\* The lockstep climb of both generator and verifier: the last common ancestor of
\* the starting index under n leaves and under m leaves, or the failure of parent().
RECURSIVE Diverge(_, _, _, _)
Diverge(ancestor_in_tree, ancestor_in_oldtree, n, m) ==
    LET pt == Parent(ancestor_in_tree, n)
        po == Parent(ancestor_in_oldtree, m)
    IN  IF pt < 0 THEN pt
        ELSE IF po < 0 THEN po
        ELSE IF pt = po THEN Diverge(pt, po, n, m)
        ELSE ancestor_in_tree

\* What a failed index computation does to the call.
ErrStatus(code) == IF code = IdxOverflow THEN "Overflow" ELSE "Panic"

\* Mutation of CopathEntry: the path node itself is logged instead of its sibling.
CopathEntryOnPath(path_idx, n) == path_idx

\* One round of the copath loop: which node's digest is emitted for path_idx.
CopathEntry(path_idx, n) == Sibling(path_idx, n)

\* while path_idx != tree_root_idx { push sibling digest; path_idx = parent }
RECURSIVE Copath(_, _, _)
Copath(path_idx, tree_root_idx, lv) ==
    IF path_idx = tree_root_idx THEN [status |-> "Ok", proof |-> <<>>]
    ELSE LET n   == Len(lv)
             sib == CopathEntry(path_idx, n)
         IN  IF sib < 0 THEN [status |-> ErrStatus(sib), proof |-> <<>>]
             ELSE IF sib >= NumInternalNodes(n) THEN [status |-> "Panic", proof |-> <<>>]
             ELSE LET rest == Copath(Parent(path_idx, n), tree_root_idx, lv)
                  IN  [status |-> rest.status,
                       proof  |-> <<NodeDigest(sib, lv)>> \o rest.proof]

\* "A consistency proof from self to self is empty"
SelfToSelf(subslice_size, num_tree_leaves) == subslice_size = num_tree_leaves

\* The walk the generator makes for subslice_size, NoWalk when it makes none.
GenWalk(lv, subslice_size) ==
    IF subslice_size = 0 \/ SelfToSelf(subslice_size, Len(lv))
       \/ IsPowerOfTwo(subslice_size)
    THEN NoWalk
    ELSE LET s == LeafToInternal(subslice_size - 1)
         IN  Diverge(s, s, Len(lv), subslice_size)

ConsistencyProof(lv, subslice_size) ==
    IF subslice_size = 0 THEN [status |-> "Panic", proof |-> <<>>]
    ELSE
    LET num_tree_leaves    == Len(lv)
        num_oldtree_leaves == subslice_size
        tree_root_idx      == RootIdx(num_tree_leaves)
        oldtree_root_idx   == RootIdx(num_oldtree_leaves)
    IN  IF SelfToSelf(subslice_size, num_tree_leaves)
        THEN [status |-> "Ok", proof |-> <<>>]
        ELSE IF ~IsPowerOfTwo(subslice_size)
        THEN LET a == GenWalk(lv, subslice_size)
             IN  IF a < 0 THEN [status |-> ErrStatus(a), proof |-> <<>>]
                 ELSE IF a >= NumInternalNodes(num_tree_leaves)
                 THEN [status |-> "Panic", proof |-> <<>>]
                 ELSE LET rest == Copath(a, tree_root_idx, lv)
                      IN  [status |-> rest.status,
                           proof  |-> <<NodeDigest(a, lv)>> \o rest.proof]
        ELSE Copath(oldtree_root_idx, tree_root_idx, lv)

(***************************************************************************)
(* RootHash::verify_consistency                                            *)
(***************************************************************************)
\* Mutation of FastPath: equal digests are accepted whatever the proof holds.
FastPathAnyProof(self, old_root, proof) == old_root.root_hash = self.root_hash

\* "The update was from self to self. Nothing changed, and the proof is empty."
FastPath(self, old_root, proof) ==
    old_root.root_hash = self.root_hash /\ BytesLen(proof) = 0

\* Mutation of StepHash: the two sides are exchanged.
StepHashSwapped(is_left, running_hash, sibling_hash) ==
    IF is_left THEN ParentHash(sibling_hash, running_hash)
    ELSE ParentHash(running_hash, sibling_hash)

\* parent_hash with the running hash on the side is_left says.
StepHash(is_left, running_hash, sibling_hash) ==
    IF is_left THEN ParentHash(running_hash, sibling_hash)
    ELSE ParentHash(sibling_hash, running_hash)

\* Mutation of FinalCheck: failure only when both hashes mismatch.
FinalCheckBoth(running_oldtree_hash, running_tree_hash, self, old_root) ==
    IF (running_oldtree_hash # old_root.root_hash) /\ (running_tree_hash # self.root_hash)
    THEN "Failure"
    ELSE "Ok"

\* "the old hash should be the old root, and the new hash should be the new root"
FinalCheck(running_oldtree_hash, running_tree_hash, self, old_root) ==
    IF (running_oldtree_hash # old_root.root_hash) \/ (running_tree_hash # self.root_hash)
    THEN "Failure"
    ELSE "Ok"

\* Whether the copath node just combined into the tree hash also feeds the oldtree hash.
FeedsOldtree(running_oldtree_idx, oldtree_root_idx, sibling_idx, m) ==
    running_oldtree_idx # oldtree_root_idx /\ sibling_idx = Sibling(running_oldtree_idx, m)

\* for sibling_hash in digests { ... }, from chunk i on, then the final comparison.
\* chunks() ends with a short chunk when bytes are left over; from_slice panics on it.
RECURSIVE VerifyLoop(_, _, _, _, _, _, _, _)
VerifyLoop(proof, i, tree_idx, tree_hash, old_idx, old_hash, self, old_root) ==
    LET n == self.num_leaves
        m == old_root.num_leaves
    IN
    IF i > Len(proof.digests)
    THEN IF proof.extra > 0 THEN "Panic"
         ELSE FinalCheck(old_hash, tree_hash, self, old_root)
    ELSE
    LET sibling_hash == proof.digests[i]
        sibling_idx  == Sibling(tree_idx, n)
    IN  IF sibling_idx < 0 THEN ErrStatus(sibling_idx)
        ELSE
        LET tree_hash2 == StepHash(IsLeft(tree_idx, n), tree_hash, sibling_hash)
            tree_idx2  == Parent(tree_idx, n)
            old_sib    == IF old_idx # RootIdx(m) THEN Sibling(old_idx, m) ELSE 0
        IN  IF old_sib < 0 THEN ErrStatus(old_sib)
            ELSE IF FeedsOldtree(old_idx, RootIdx(m), sibling_idx, m)
            THEN VerifyLoop(proof, i + 1, tree_idx2, tree_hash2,
                            Parent(old_idx, m),
                            StepHash(IsLeft(old_idx, m), old_hash, sibling_hash),
                            self, old_root)
            ELSE VerifyLoop(proof, i + 1, tree_idx2, tree_hash2, old_idx, old_hash,
                            self, old_root)

\* The walk the verifier makes, NoWalk when it makes none.
VerWalk(self, old_root, proof) ==
    IF old_root.num_leaves = 0 \/ FastPath(self, old_root, proof)
       \/ IsPowerOfTwo(old_root.num_leaves)
    THEN NoWalk
    ELSE LET s == LeafToInternal(old_root.num_leaves - 1)
         IN  Diverge(s, s, self.num_leaves, old_root.num_leaves)

VerifyConsistency(self, old_root, proof) ==
    IF old_root.num_leaves = 0 THEN "Panic"
    ELSE IF FastPath(self, old_root, proof) THEN "Ok"
    ELSE IF IsPowerOfTwo(old_root.num_leaves)
    THEN LET r == RootIdx(old_root.num_leaves)
         IN  VerifyLoop(proof, 1, r, old_root.root_hash, r, old_root.root_hash,
                        self, old_root)
    ELSE LET a == VerWalk(self, old_root, proof)
         IN  IF a < 0 THEN ErrStatus(a)
             \* digests.next().unwrap(): no chunk at all, or a first chunk that is short
             ELSE IF Len(proof.digests) = 0 THEN "Panic"
             ELSE VerifyLoop(proof, 2, a, proof.digests[1], a, proof.digests[1],
                             self, old_root)

\* The caller's path from received bytes to a verdict.
VerifyBytes(self, old_root, bytes) ==
    LET p == FromBytes(bytes)
    IN  IF p.status = "Panic" THEN "Panic"
        ELSE VerifyConsistency(self, old_root, p.proof)

\* An index overflow is a panic in a build with overflow checks and a wrapped,
\* endless climb without them.
Outcomes(status) == IF status = "Overflow" THEN {"Panic", "Hang"} ELSE {status}

(***************************************************************************)
(* The state machine: a tree grown by push, and calls on it.               *)
(***************************************************************************)
NoRoot == [root_hash |-> EmptyDigest, num_leaves |-> 0]

NoBytes == Bytes(<<>>, 0)

Init ==
    /\ leaves = <<>>
    /\ roots = <<>>
    /\ op = "new"
    /\ arg_size = 0
    /\ arg_self = NoRoot
    /\ arg_old = NoRoot
    /\ arg_bytes = NoBytes
    /\ outcome = "Ok"
    /\ ret_proof = <<>>
    /\ walk = NoWalk

\* CtMerkleTree::push, and the root() snapshot the caller keeps of the grown tree.
Push(v) ==
    /\ Len(leaves) < MaxLeaves
    /\ leaves' = Append(leaves, LeafHash(v))
    /\ roots' = Append(roots, Root(leaves'))
    /\ op' = "push"
    /\ arg_size' = 0
    /\ arg_self' = NoRoot
    /\ arg_old' = NoRoot
    /\ arg_bytes' = NoBytes
    /\ outcome' = "Ok"
    /\ ret_proof' = <<>>
    /\ walk' = NoWalk

\* The calls below read the tree and leave it as it is, so the result of a call does
\* not depend on the calls made before it: each is recorded from the state the last
\* push (or new) left, and the next push overwrites the record.
Idle == op \in {"new", "push"}

ConsistencyProofCall(subslice_size) ==
    LET r == ConsistencyProof(leaves, subslice_size)
    IN  /\ Idle
        /\ op' = "consistency_proof"
        /\ arg_size' = subslice_size
        /\ outcome' \in Outcomes(r.status)
        /\ ret_proof' = IF r.status = "Ok" THEN r.proof ELSE <<>>
        /\ walk' = GenWalk(leaves, subslice_size)
        /\ arg_self' = NoRoot
        /\ arg_old' = NoRoot
        /\ arg_bytes' = NoBytes
        /\ UNCHANGED <<leaves, roots>>

VerifyConsistencyCall(self, old_root, bytes) ==
    /\ Idle
    /\ op' = "verify_consistency"
    /\ arg_self' = self
    /\ arg_old' = old_root
    /\ arg_bytes' = bytes
    /\ outcome' \in Outcomes(VerifyBytes(self, old_root, bytes))
    /\ walk' = IF FromBytes(bytes).status = "Panic" THEN NoWalk
               ELSE VerWalk(self, old_root, bytes)
    /\ arg_size' = 0
    /\ ret_proof' = <<>>
    /\ UNCHANGED <<leaves, roots>>

(***************************************************************************)
(* The inputs the calls are made on.                                       *)
(***************************************************************************)
\* A digest that is no node of any tree built here.
Junk == LeafHash(-9)

\* The proof consistency_proof returns for old size m on the current tree.
Honest(m) == ConsistencyProof(leaves, m).proof

\* Every digest the current tree and its snapshots hold, and an unrelated one.
Pool ==
    {roots[k].root_hash : k \in 1..Len(roots)}
        \cup {NodeDigest(x, leaves) : x \in 0..(NumInternalNodes(Len(leaves)) - 1)}
        \cup {Junk}

\* The digests a root descriptor is forged from: those of the snapshots, and Junk.
RootPool == {roots[k].root_hash : k \in 1..Len(roots)} \cup {Junk}

\* Arbitrary root descriptors, with leaf counts unrelated to the tree.
AnyRoots ==
    {[root_hash |-> d, num_leaves |-> k] : d \in RootPool, k \in 0..(MaxAdvLeaves + 1)}

\* Arbitrary proofs of whole digests.
AdvProofs == UNION {[1..k -> Pool] : k \in 0..MaxAdvProofLen}

\* The honest round trip of the crate's test: an old snapshot, the proof, the new root.
VerifyHonest ==
    /\ Idle
    /\ \E m \in 1..Len(leaves) :
        VerifyConsistencyCall(Root(leaves), roots[m], AsBytes(Honest(m)))

\* An honest proof with one digest replaced.
VerifyTampered ==
    /\ Idle
    /\ \E m \in 1..Len(leaves) : \E i \in 1..Len(Honest(m)) : \E d \in Pool \ {Honest(m)[i]} :
        VerifyConsistencyCall(Root(leaves), roots[m],
                              AsBytes([Honest(m) EXCEPT ![i] = d]))

\* An honest proof against an old root whose digest was swapped.
VerifySwappedOld ==
    /\ Idle
    /\ \E m \in 1..Len(leaves) : \E d \in Pool \ {roots[m].root_hash} :
        VerifyConsistencyCall(Root(leaves), [roots[m] EXCEPT !.root_hash = d],
                              AsBytes(Honest(m)))

\* An honest proof followed by bytes that do not fill a digest.
VerifyTrailing ==
    /\ Idle
    /\ \E m \in 1..Len(leaves) : \E k \in {1, DigestSize - 1} :
        VerifyConsistencyCall(Root(leaves), roots[m], Bytes(Honest(m), k))

\* Any root against itself, with any proof.
VerifySelf ==
    /\ Idle
    /\ Len(leaves) <= MaxAdvLeaves
    /\ \E r \in AnyRoots : \E p \in AdvProofs :
        VerifyConsistencyCall(r, r, Bytes(p, 0))

\* The genuine new root against any old root and any proof.
VerifyArbitrary ==
    /\ Idle
    /\ 1 <= Len(leaves) /\ Len(leaves) <= MaxAdvLeaves
    /\ \E o \in AnyRoots : \E p \in AdvProofs :
        VerifyConsistencyCall(Root(leaves), o, Bytes(p, 0))

\* The tree grows by one item.
Grow == \E v \in Items(Len(leaves)) : Push(v)

\* A proof is asked for any old size, the sizes the preconditions exclude included.
Generate ==
    /\ Idle
    /\ \E m \in 0..(Len(leaves) + 1) : ConsistencyProofCall(m)

Next ==
    \/ Grow
    \/ Generate
    \/ VerifyHonest
    \/ VerifyTampered
    \/ VerifySwappedOld
    \/ VerifyTrailing
    \/ VerifySelf
    \/ VerifyArbitrary

Spec == Init /\ [][Next]_vars

(***************************************************************************)
(* RFC 6962, section 2.1: the Merkle tree hash and the consistency proof,  *)
(* by their recursive definitions over the list of leaf hashes.            *)
(***************************************************************************)
\* The largest power of two smaller than n (n >= 2).
RECURSIVE SplitPoint(_)
SplitPoint(n) == IF n <= 2 THEN 1 ELSE 2 * SplitPoint((n + 1) \div 2)

RECURSIVE MTH(_)
MTH(D) ==
    IF Len(D) = 1 THEN D[1]
    ELSE LET k == SplitPoint(Len(D))
         IN  ParentHash(MTH(SubSeq(D, 1, k)), MTH(SubSeq(D, k + 1, Len(D))))

RECURSIVE SubProof(_, _, _)
SubProof(m, D, b) ==
    IF m = Len(D) THEN (IF b THEN <<>> ELSE <<MTH(D)>>)
    ELSE LET k == SplitPoint(Len(D))
         IN  IF m <= k
             THEN SubProof(m, SubSeq(D, 1, k), b) \o <<MTH(SubSeq(D, k + 1, Len(D)))>>
             ELSE SubProof(m - k, SubSeq(D, k + 1, Len(D)), FALSE) \o <<MTH(SubSeq(D, 1, k))>>

RfcProof(m, D) == SubProof(m, D, TRUE)

\* The root of the first m leaves of the current tree, by the RFC's definition.
GenuineRoot(m) == [root_hash |-> MTH(SubSeq(leaves, 1, m)), num_leaves |-> m]

(***************************************************************************)
(* The calls the claims are about.                                         *)
(***************************************************************************)
Verified == op = "verify_consistency"

Generated == op = "consistency_proof"

\* The proof received is whole digests.
WholeDigests == BytesLen(arg_bytes) % DigestSize = 0

\* The last call verified the current root against the root of the first m leaves
\* with the proof generated for m.
HonestCall(m) ==
    /\ Verified
    /\ arg_old.num_leaves = m
    /\ arg_self = Root(leaves)
    /\ arg_old = GenuineRoot(m)
    /\ arg_bytes = AsBytes(Honest(m))

\* The positions at which the proof received differs from the honest proof for m.
Differing(m) == {i \in 1..Len(Honest(m)) : arg_bytes.digests[i] # Honest(m)[i]}

\* The last call verified an honest nonempty proof for m with one digest replaced.
TamperedCall(m) ==
    /\ Verified
    /\ arg_old.num_leaves = m
    /\ arg_self = Root(leaves)
    /\ arg_old = GenuineRoot(m)
    /\ arg_bytes.extra = 0
    /\ Len(Honest(m)) > 0
    /\ Len(arg_bytes.digests) = Len(Honest(m))
    /\ Cardinality(Differing(m)) = 1

\* The last call verified the honest proof for m against an old root of m leaves
\* with another digest.
SwappedOldCall(m) ==
    /\ Verified
    /\ arg_old.num_leaves = m
    /\ arg_self = Root(leaves)
    /\ arg_old.root_hash # GenuineRoot(m).root_hash
    /\ arg_bytes = AsBytes(Honest(m))

(***************************************************************************)
(* Claims.                                                                 *)
(***************************************************************************)
\* C1: round trip.  Whenever the current root is verified against the root of its
\* first m leaves (1 <= m <= leaf count) with the proof consistency_proof(m) returns,
\* verify_consistency returns Ok.
C1_RoundTrip ==
    \A m \in 1..Len(leaves) : HonestCall(m) => outcome = "Ok"

\* C1 witness: an honest proof of three or more digests for an old size that is
\* not a power of two and smaller than the tree was verified and accepted.
C1_Witness ==
    \E m \in 1..Len(leaves) :
        /\ HonestCall(m)
        /\ ~IsPowerOfTwo(m)
        /\ m < Len(leaves)
        /\ Len(arg_bytes.digests) >= 3
        /\ outcome = "Ok"

\* C2: soundness.  If verify_consistency returns Ok on the genuine current root and an
\* old root of m leaves, 1 <= m <= leaf count, then the old root's digest is the root
\* digest of the first m leaves, whatever the proof.
C2_Soundness ==
    (/\ Verified
     /\ outcome = "Ok"
     /\ arg_self = Root(leaves)
     /\ 1 <= arg_old.num_leaves
     /\ arg_old.num_leaves <= Len(leaves))
        => arg_old.root_hash = GenuineRoot(arg_old.num_leaves).root_hash

\* C3: no false accept on tampering.  An honest nonempty proof (1 <= m < leaf count)
\* with one digest replaced by another value, roots unchanged, is answered Failure.
C3_TamperFails ==
    \A m \in 1..(Len(leaves) - 1) : TamperedCall(m) => outcome = "Failure"

\* C3 witness: such a proof, for an old size that is not a power of two and tampered
\* after its anchor digest, was verified and answered Failure.
C3_Witness ==
    \E m \in 1..(Len(leaves) - 1) :
        /\ TamperedCall(m)
        /\ ~IsPowerOfTwo(m)
        /\ \E i \in Differing(m) : i >= 2
        /\ outcome = "Failure"

\* C4: the honest proof for m (1 <= m <= leaf count, the empty proof of m = leaf count
\* included) verified against an old root of m leaves with a swapped digest is
\* answered Failure.
C4_SwappedOldFails ==
    \A m \in 1..Len(leaves) : SwappedOldCall(m) => outcome = "Failure"

\* C5: proof bytes whose length is no multiple of the digest size are answered with
\* the recoverable error MalformedProof.
C5_MalformedReturned ==
    (Verified /\ ~WholeDigests) => outcome = "MalformedProof"

\* C6: verification is total.  For every old root of one leaf or more and every proof
\* of whole digests, verify_consistency returns Ok or Failure.
C6_Total ==
    (Verified /\ arg_old.num_leaves >= 1 /\ WholeDigests)
        => outcome \in {"Ok", "Failure"}

\* C7: RFC 6962 compatibility.  For 1 <= m < leaf count, consistency_proof(m) returns
\* the digests of PROOF(m, D[n]) of RFC 6962, in the same order, and their bytes are
\* those digests and nothing else.
C7_Rfc6962 ==
    (Generated /\ 1 <= arg_size /\ arg_size < Len(leaves))
        => /\ outcome = "Ok"
           /\ ret_proof = RfcProof(arg_size, leaves)
           /\ AsBytes(ret_proof) = Bytes(RfcProof(arg_size, leaves), 0)

\* C7 witness: a proof of three or more digests was generated for an old size that
\* is not a power of two.
C7_Witness ==
    /\ Generated
    /\ 1 <= arg_size
    /\ arg_size < Len(leaves)
    /\ ~IsPowerOfTwo(arg_size)
    /\ outcome = "Ok"
    /\ Len(ret_proof) >= 3

\* C8: generator preconditions.  consistency_proof(old_size) with old_size = 0 or
\* old_size greater than the leaf count ends in a panic.
C8_PreconditionPanics ==
    (Generated /\ (arg_size = 0 \/ arg_size > Len(leaves))) => outcome = "Panic"

\* C9: self-consistency.  consistency_proof(n) on a tree of n >= 1 leaves is the empty
\* proof, and a root of one leaf or more verified against itself is accepted if and
\* only if the proof is empty.
C9_SelfConsistency ==
    /\ (Generated /\ Len(leaves) >= 1 /\ arg_size = Len(leaves))
           => (outcome = "Ok" /\ ret_proof = <<>>)
    /\ (Verified /\ arg_old = arg_self /\ arg_self.num_leaves >= 1)
           => (outcome = "Ok" <=> BytesLen(arg_bytes) = 0)

\* C9 witness: a root whose leaf count is not a power of two was verified against
\* itself with a nonempty proof of whole digests, and not accepted.
C9_Witness ==
    /\ Verified
    /\ arg_old = arg_self
    /\ arg_self.num_leaves >= 1
    /\ ~IsPowerOfTwo(arg_self.num_leaves)
    /\ WholeDigests
    /\ BytesLen(arg_bytes) > 0
    /\ outcome # "Ok"

\* C10: the divergence walk is safe.  Whenever a call makes the walk (consistency_proof
\* for 1 <= old_size < leaf count, verify_consistency for any pair of leaf counts), it
\* stops at a node that is a root of neither tree, so parent() is never taken on a root.
C10_WalkSafe ==
    /\ (Generated /\ 1 <= arg_size /\ arg_size < Len(leaves) /\ walk # NoWalk)
           => (walk >= 0 /\ walk # RootIdx(Len(leaves)) /\ walk # RootIdx(arg_size))
    /\ (Verified /\ walk # NoWalk)
           => (/\ walk >= 0
               /\ walk # RootIdx(arg_self.num_leaves)
               /\ walk # RootIdx(arg_old.num_leaves))

====
